---------------------------- MODULE Spec2Model ----------------------------
(***************************************************************************)
(* Model of the scoring API's request validation framework                 *)
(* (src/scoring/field.py) and of its dispatcher (src/scoring/api.py).      *)
(*                                                                         *)
(* Python values are tagged records [t |-> tag, v |-> payload]:            *)
(*   "null"  None                    v = <<>>                              *)
(*   "bool"  True / False            v = TRUE / FALSE                      *)
(*   "int"   an int, held as its decimal numeral (sign, digits): phone     *)
(*           numbers do not fit the checker's 32-bit integers              *)
(*   "str"   a str, held as the tuple of its characters                    *)
(*   "list"  a list, v = the tuple of its elements                         *)
(*   "dict"  a dict, v = the tuple of its <<key, value>> items             *)
(*   "date"  a datetime.date, v = [y, m, d]                                *)
(***************************************************************************)
EXTENDS Integers, Sequences, FiniteSets, TLC

VARIABLES
    now,          \* the wall clock read by date.today() / datetime.now()
    field_dict,   \* class name -> its descriptors, in declaration order
    objs,         \* the FieldHolder instances alive, with their last results
    req           \* the last call of method_handler and what it did

vars == <<now, field_dict, objs, req>>

----------------------------------------------------------------------------
(* Python values *)

None == [t |-> "null", v |-> <<>>]
StrV(s) == [t |-> "str", v |-> s]
IntV(s) == [t |-> "int", v |-> s]
BoolV(b) == [t |-> "bool", v |-> b]
ListV(l) == [t |-> "list", v |-> l]
DictV(m) == [t |-> "dict", v |-> m]
DateV(y, m, d) == [t |-> "date", v |-> [y |-> y, m |-> m, d |-> d]]

\* isinstance(value, str) etc.; bool is a subclass of int in Python.
IsStr(x) == x.t = "str"
IsInt(x) == x.t \in {"int", "bool"}
IsList(x) == x.t = "list"
IsDict(x) == x.t = "dict"

DigitChars == <<"0", "1", "2", "3", "4", "5", "6", "7", "8", "9">>
IsDigit(c) == \E i \in 1..10 : DigitChars[i] = c
DigitVal(c) == (CHOOSE i \in 1..10 : DigitChars[i] = c) - 1
LetterChars ==
    {"a", "b", "c", "d", "e", "f", "g", "h", "i", "j", "k", "l", "m",
     "n", "o", "p", "q", "r", "s", "t", "u", "v", "w", "x", "y", "z",
     "A", "B", "C", "D", "E", "F", "G", "H", "I", "J", "K", "L", "M",
     "N", "O", "P", "Q", "R", "S", "T", "U", "V", "W", "X", "Y", "Z"}
IsLetter(c) == c \in LetterChars
AllIn(s, lo, hi, P(_)) == \A i \in lo..hi : P(s[i])

\* str(value) for an int or a bool.
PyStr(x) ==
    IF x.t = "bool"
    THEN (IF x.v THEN <<"T", "r", "u", "e">> ELSE <<"F", "a", "l", "s", "e">>)
    ELSE x.v

\* value == n for a small non-negative n (True == 1, False == 0).
PyEqSmall(x, n) ==
    IF x.t = "bool" THEN (IF x.v THEN n = 1 ELSE n = 0)
    ELSE x.t = "int" /\ x.v = <<DigitChars[n + 1]>>

\* key in mapping, mapping[key] for a dict held as a tuple of items.
HasKey(m, k) == \E i \in 1..Len(m) : m[i][1] = k
Lookup(m, k) == m[CHOOSE i \in 1..Len(m) : m[i][1] = k][2]

\* instance.__dict__ is a function from attribute names to values.
EmptyDict == [k \in {} |-> None]
DictSet(d, k, x) == [q \in (DOMAIN d) \cup {k} |-> IF q = k THEN x ELSE d[q]]
DictPop(d, k) == [q \in (DOMAIN d) \ {k} |-> d[q]]

----------------------------------------------------------------------------
(* Calendar *)

IsLeap(y) == (y % 4 = 0 /\ y % 100 # 0) \/ y % 400 = 0
DaysInMonth(y, m) ==
    IF m = 2 THEN (IF IsLeap(y) THEN 29 ELSE 28)
    ELSE IF m \in {4, 6, 9, 11} THEN 30 ELSE 31


RECURSIVE NumVal(_)
NumVal(ds) ==
    IF ds = <<>> THEN 0
    ELSE 10 * NumVal(SubSeq(ds, 1, Len(ds) - 1)) + DigitVal(ds[Len(ds)])

RECURSIVE JoinChars(_)
JoinChars(s) == IF s = <<>> THEN "" ELSE s[1] \o JoinChars(Tail(s))

IsDigit19(c) == IsDigit(c) /\ c # "0"

\* The directive %d as _strptime compiles it: 3[0-1]|[1-2]\d|0[1-9]|[1-9]| [1-9]
DayDirective(d) ==
    \/ Len(d) = 2 /\ d[1] = "3" /\ d[2] \in {"0", "1"}
    \/ Len(d) = 2 /\ d[1] \in {"1", "2"} /\ IsDigit(d[2])
    \/ Len(d) = 2 /\ d[1] \in {"0", " "} /\ IsDigit19(d[2])
    \/ Len(d) = 1 /\ IsDigit19(d[1])

\* The directive %m: 1[0-2]|0[1-9]|[1-9]
MonthDirective(m) ==
    \/ Len(m) = 2 /\ m[1] = "1" /\ m[2] \in {"0", "1", "2"}
    \/ Len(m) = 2 /\ m[1] = "0" /\ IsDigit19(m[2])
    \/ Len(m) = 1 /\ IsDigit19(m[1])

DayNumber(d) == NumVal(IF d[1] = " " THEN Tail(d) ELSE d)

\* datetime.datetime.strptime(s, "%d.%m.%Y").date(): [ok, date, why], where why
\* is the text of the ValueError raised when ok is FALSE.
strptime(s) ==
    LET n == Len(s)
        dots == {i \in 1..n : s[i] = "."}
        p1 == IF dots = {} THEN 0 ELSE CHOOSE i \in dots : \A j \in dots : i <= j
        dots2 == {i \in dots : i > p1}
        p2 == IF dots2 = {} THEN 0 ELSE CHOOSE i \in dots2 : \A j \in dots2 : i <= j
        d == SubSeq(s, 1, p1 - 1)
        m == SubSeq(s, p1 + 1, p2 - 1)
        rest == SubSeq(s, p2 + 1, n)
        matched == /\ p1 > 0 /\ p2 > 0
                   /\ DayDirective(d) /\ MonthDirective(m)
                   /\ Len(rest) >= 4 /\ AllIn(rest, 1, 4, IsDigit)
        year == NumVal(SubSeq(rest, 1, 4))
        month == NumVal(m)
        day == DayNumber(d)
        bad(why) == [ok |-> FALSE, date |-> None, why |-> why]
    IN  IF ~matched
        THEN bad("time data '" \o JoinChars(s) \o "' does not match format '%d.%m.%Y'")
        ELSE IF Len(rest) > 4
        THEN bad("unconverted data remains: " \o JoinChars(SubSeq(rest, 5, Len(rest))))
        ELSE IF year < 1
        THEN bad("year 0 is out of range")
        ELSE IF day > DaysInMonth(year, month)
        THEN bad("day is out of range for month")
        ELSE [ok |-> TRUE, date |-> DateV(year, month, day), why |-> ""]

\* The position a pattern's final $ may match at: the end of the string, or just
\* before a newline that ends it.
DollarEnds(s) ==
    {Len(s)} \cup (IF Len(s) > 0 /\ s[Len(s)] = "\n" THEN {Len(s) - 1} ELSE {})

IsDomainChar(c) == IsLetter(c) \/ IsDigit(c) \/ c \in {"-", "."}
NotNewline(c) == c # "\n"

\* re.match("^.+\@(\[?)[a-zA-Z0-9\-\.]+\.([a-zA-Z]{2,3}|[0-9]{1,3})(\]?)$", e)
EmailMatch(e) ==
    \E endp \in DollarEnds(e), a \in 2..Len(e), ob \in {0, 1}, cb \in {0, 1}, k \in 1..3 :
        LET q == endp - cb - k      \* the dot before the top-level domain
            first == a + ob + 1     \* the first character of the domain
        IN  /\ e[a] = "@"
            /\ AllIn(e, 1, a - 1, NotNewline)
            /\ q - 1 >= first
            /\ ob = 1 => e[a + 1] = "["
            /\ cb = 1 => e[endp] = "]"
            /\ AllIn(e, first, q - 1, IsDomainChar)
            /\ e[q] = "."
            /\ \/ k \in {2, 3} /\ AllIn(e, q + 1, q + k, IsLetter)
               \/ AllIn(e, q + 1, q + k, IsDigit)

is_valid_email(email) == Len(email) > 7 /\ EmailMatch(email)

\* re.match("^7\d+$", phone)
PhoneMatch(p) ==
    \E endp \in DollarEnds(p) :
        /\ endp >= 2
        /\ p[1] = "7"
        /\ AllIn(p, 2, endp, IsDigit)

is_valid_phone(phone) == Len(phone) = 11 /\ PhoneMatch(phone)

\* td is datetime.date.today(), date a converted "date" value.
is_valid_birthday(date, td) ==
    LET years0 == td.y - date.v.y
        years == IF td.m < date.v.m \/ (td.m = date.v.m /\ td.d < date.v.d)
                 THEN years0 - 1 ELSE years0
    IN  years <= 70

----------------------------------------------------------------------------
(* Field descriptors: field.py *)

\* A descriptor is [field_name, kind, required, nullable]; kind names its class.
\* Field.__init__ leaves field_name unset; the metaclass names the descriptor.
Field(kind, required, nullable) ==
    [field_name |-> "", kind |-> kind, required |-> required, nullable |-> nullable]

format_err(self, msg) == self.field_name \o ": " \o msg

\* What validate_convert_value returns and leaves in the caller's error_msgs.
Conv(value, error_msgs) == [value |-> value, error_msgs |-> error_msgs]

Field_validate_convert_value(self, error_msgs, value) == Conv(value, error_msgs)

\* Each subclass calls super().validate_convert_value(...) and then applies its
\* own check to what came back (r): the X_check operators are those checks.
CharField_check(self, r) ==
    IF r.error_msgs = <<>> /\ ~IsStr(r.value)
    THEN Conv(r.value, Append(r.error_msgs, format_err(self, "field must be string")))
    ELSE r

CharField_validate_convert_value(self, error_msgs, value) ==
    CharField_check(self, Field_validate_convert_value(self, error_msgs, value))

ArgumentsField_check(self, r) ==
    IF r.error_msgs = <<>> /\ ~IsDict(r.value)
    THEN Conv(r.value, Append(r.error_msgs, format_err(self, "field must be object")))
    ELSE r

ArgumentsField_validate_convert_value(self, error_msgs, value) ==
    ArgumentsField_check(self, Field_validate_convert_value(self, error_msgs, value))

EmailField_check(self, r) ==
    IF r.error_msgs = <<>> /\ ~is_valid_email(r.value.v)
    THEN Conv(r.value, Append(r.error_msgs,
                              format_err(self, "field must be valid email address")))
    ELSE r

EmailField_validate_convert_value(self, error_msgs, value) ==
    EmailField_check(self, CharField_validate_convert_value(self, error_msgs, value))

PhoneField_check(self, r) ==
    LET str == IF IsInt(r.value) THEN StrV(PyStr(r.value)) ELSE r.value
    IN  IF r.error_msgs # <<>> THEN r
        ELSE IF ~IsStr(r.value) /\ ~IsInt(r.value)
        THEN Conv(r.value, Append(r.error_msgs,
                                  format_err(self, "field must be string or number")))
        ELSE IF ~is_valid_phone(str.v)
        THEN Conv(str, Append(r.error_msgs,
               format_err(self, "field must be valid phone (11 digits, leading digit = 7)")))
        ELSE Conv(str, r.error_msgs)

PhoneField_validate_convert_value(self, error_msgs, value) ==
    PhoneField_check(self, Field_validate_convert_value(self, error_msgs, value))

\* The try/except around strptime: parsed is what strptime did.
DateField_convert(self, r, parsed) ==
    IF parsed.ok THEN Conv(parsed.date, r.error_msgs)
    ELSE Conv(r.value, Append(r.error_msgs,
                format_err(self, "invalid date format (" \o parsed.why \o ")")))

DateField_check(self, r) ==
    IF r.error_msgs # <<>> THEN r ELSE DateField_convert(self, r, strptime(r.value.v))

DateField_validate_convert_value(self, error_msgs, value) ==
    DateField_check(self, CharField_validate_convert_value(self, error_msgs, value))

BirthDayField_check(self, r, td) ==
    IF r.error_msgs = <<>> /\ ~is_valid_birthday(r.value, td)
    THEN Conv(r.value, Append(r.error_msgs, format_err(self, "invalid birthday")))
    ELSE r

BirthDayField_validate_convert_value(self, error_msgs, value, td) ==
    BirthDayField_check(self, DateField_validate_convert_value(self, error_msgs, value), td)

GenderField_check(self, r) ==
    IF r.error_msgs # <<>> THEN r
    ELSE IF ~IsInt(r.value)
    THEN Conv(r.value, Append(r.error_msgs, format_err(self, "field must be number")))
    ELSE IF ~\E n \in {0, 1, 2} : PyEqSmall(r.value, n)
    THEN Conv(r.value, Append(r.error_msgs, format_err(self, "field must be 0, 1 or 2")))
    ELSE r

GenderField_validate_convert_value(self, error_msgs, value) ==
    GenderField_check(self, Field_validate_convert_value(self, error_msgs, value))

ClientIDsField_check(self, r) ==
    IF r.error_msgs # <<>> THEN r
    ELSE IF ~IsList(r.value)
    THEN Conv(r.value, Append(r.error_msgs, format_err(self, "field must be list")))
    ELSE IF ~\A i \in 1..Len(r.value.v) : IsInt(r.value.v[i])
    THEN Conv(r.value, Append(r.error_msgs,
                              format_err(self, "field must be list of numbers")))
    ELSE r

ClientIDsField_validate_convert_value(self, error_msgs, value) ==
    ClientIDsField_check(self, Field_validate_convert_value(self, error_msgs, value))

\* self.validate_convert_value(...), bound by the descriptor's class.
validate_convert_value(self, error_msgs, value, td) ==
    CASE self.kind = "CharField" -> CharField_validate_convert_value(self, error_msgs, value)
      [] self.kind = "ArgumentsField" ->
            ArgumentsField_validate_convert_value(self, error_msgs, value)
      [] self.kind = "EmailField" -> EmailField_validate_convert_value(self, error_msgs, value)
      [] self.kind = "PhoneField" -> PhoneField_validate_convert_value(self, error_msgs, value)
      [] self.kind = "DateField" -> DateField_validate_convert_value(self, error_msgs, value)
      [] self.kind = "BirthDayField" ->
            BirthDayField_validate_convert_value(self, error_msgs, value, td)
      [] self.kind = "GenderField" -> GenderField_validate_convert_value(self, error_msgs, value)
      [] self.kind = "ClientIDsField" ->
            ClientIDsField_validate_convert_value(self, error_msgs, value)
      [] OTHER -> Field_validate_convert_value(self, error_msgs, value)

\* Field.__set__(self, instance, value)
Field_set(self, instance, value) ==
    [instance EXCEPT !.dict =
        DictPop(DictSet(instance.dict, self.field_name \o "_orig", value), self.field_name)]

\* Field.__get__(self, instance, owner)
Field_get(self, instance) == instance.dict[self.field_name]

\* Field_store with a slip: storing the converted value consumes the raw one.
Field_store_consuming(self, instance, x) ==
    [instance EXCEPT !.dict = DictPop(DictSet(instance.dict, self.field_name, x),
                                      self.field_name \o "_orig")]

\* instance.__dict__[self.field_name] = x
Field_store(self, instance, x) ==
    [instance EXCEPT !.dict = DictSet(instance.dict, self.field_name, x)]

\* Lines 31-39 of Field.validate: value and error_msgs are as lines 25-30 left
\* them, r is what validate_convert_value returns (called only for a value that
\* is not None).
Field_validate_value(self, instance, value, error_msgs, r) ==
    IF value # None
    THEN [instance |-> IF r.error_msgs = <<>> THEN Field_store(self, instance, r.value)
                       ELSE instance,
          error_msgs |-> r.error_msgs]
    ELSE IF ~self.nullable
    THEN [instance |-> instance,
          error_msgs |-> Append(error_msgs, format_err(self, "field must not be null"))]
    ELSE [instance |-> Field_store(self, instance, None), error_msgs |-> error_msgs]

\* Lines 25-30 of Field.validate: the value read and the errors so far.
Field_validate_read(self, instance) ==
    LET key == self.field_name \o "_orig"
        has == key \in DOMAIN instance.dict
    IN  [value |-> IF has THEN instance.dict[key] ELSE None,
         error_msgs |-> IF ~has /\ self.required
                        THEN <<format_err(self, "required field absent")>>
                        ELSE <<>>]

Field_validate_step(self, instance, rd, td) ==
    Field_validate_value(self, instance, rd.value, rd.error_msgs,
                         validate_convert_value(self, rd.error_msgs, rd.value, td))

\* Field.validate(self, instance): the instance afterwards and the returned list.
Field_validate(self, instance, td) ==
    Field_validate_step(self, instance, Field_validate_read(self, instance), td)

----------------------------------------------------------------------------
(* Schemas: FieldHolderMeta, FieldHolderBase, and the request classes of api.py *)

\* The Field attributes of each class body, in declaration order.
ClassBody(cls) ==
    CASE cls = "ClientsInterestsRequest" ->
            << <<"client_ids", Field("ClientIDsField", TRUE, FALSE)>>,
               <<"date", Field("DateField", FALSE, TRUE)>> >>
      [] cls = "OnlineScoreRequest" ->
            << <<"first_name", Field("CharField", FALSE, TRUE)>>,
               <<"last_name", Field("CharField", FALSE, TRUE)>>,
               <<"email", Field("EmailField", FALSE, TRUE)>>,
               <<"phone", Field("PhoneField", FALSE, TRUE)>>,
               <<"birthday", Field("BirthDayField", FALSE, TRUE)>>,
               <<"gender", Field("GenderField", FALSE, TRUE)>> >>
      [] cls = "MethodRequest" ->
            << <<"account", Field("CharField", FALSE, TRUE)>>,
               <<"login", Field("CharField", TRUE, TRUE)>>,
               <<"token", Field("CharField", TRUE, TRUE)>>,
               <<"arguments", Field("ArgumentsField", TRUE, TRUE)>>,
               <<"method", Field("CharField", TRUE, FALSE)>> >>

Classes == {"ClientsInterestsRequest", "OnlineScoreRequest", "MethodRequest"}

\* FieldHolderMeta.__new__: name every descriptor after its attribute and
\* collect the descriptors in field_dict.
FieldHolderMeta_new(attrs) ==
    [i \in 1..Len(attrs) |-> [attrs[i][2] EXCEPT !.field_name = attrs[i][1]]]

FieldNames(fields) == {fields[i].field_name : i \in 1..Len(fields)}

\* FieldHolderBase.__init__(self, struct): struct is the tuple of a dict's items.
RECURSIVE FieldHolderBase_init_loop(_, _, _)
FieldHolderBase_init_loop(self, fields, struct) ==
    IF fields = <<>> THEN self
    ELSE LET f == Head(fields)
             next == IF HasKey(struct, f.field_name)
                     THEN Field_set(f, self, Lookup(struct, f.field_name))
                     ELSE self
         IN  FieldHolderBase_init_loop(next, Tail(fields), struct)

FieldHolderBase_init(cls, fields, struct) ==
    FieldHolderBase_init_loop([cls |-> cls, dict |-> EmptyDict], fields, struct)

\* FieldHolderBase.validate(self): the instance afterwards, the returned list
\* and the calls of Field.validate made (descriptor, returned list), in call
\* order. acc is the loop's state before an iteration, r what Field.validate
\* returned in it.
FieldHolderBase_validate_extend(acc, f, r) ==
    [instance |-> r.instance, error_msgs |-> acc.error_msgs \o r.error_msgs,
     calls |-> Append(acc.calls, [field_name |-> f.field_name, error_msgs |-> r.error_msgs])]

\* The loop with a slip: it stops at the first field that fails.
RECURSIVE FieldHolderBase_validate_loop_first_failure(_, _, _)
FieldHolderBase_validate_loop_first_failure(acc, fields, td) ==
    IF fields = <<>> \/ acc.error_msgs # <<>> THEN acc
    ELSE FieldHolderBase_validate_loop_first_failure(
             FieldHolderBase_validate_extend(acc, Head(fields),
                                             Field_validate(Head(fields), acc.instance, td)),
             Tail(fields), td)

RECURSIVE FieldHolderBase_validate_loop(_, _, _)
FieldHolderBase_validate_loop(acc, fields, td) ==
    IF fields = <<>> THEN acc
    ELSE FieldHolderBase_validate_loop(
             FieldHolderBase_validate_extend(acc, Head(fields),
                                             Field_validate(Head(fields), acc.instance, td)),
             Tail(fields), td)

FieldHolderBase_validate(self, fields, td) ==
    FieldHolderBase_validate_loop(
        [instance |-> self, error_msgs |-> <<>>, calls |-> <<>>], fields, td)

\* getattr(self, name) through the descriptor.
Attr(self, fields, name) ==
    Field_get(fields[CHOOSE i \in 1..Len(fields) : fields[i].field_name = name], self)

\* ClientsInterestsRequest.validate after super().validate() returned r.
ClientsInterestsRequest_check(fields, r) ==
    IF /\ r.error_msgs = <<>>
       /\ IsList(Attr(r.instance, fields, "client_ids"))
       /\ Attr(r.instance, fields, "client_ids").v = <<>>
    THEN [r EXCEPT !.error_msgs = Append(r.error_msgs, "empty client list")]
    ELSE r

ClientsInterestsRequest_validate(self, fields, td) ==
    ClientsInterestsRequest_check(fields, FieldHolderBase_validate(self, fields, td))

\* The cross-field rule with a slip: a pair counts when either member is given.
OnlineScoreRequest_check_either(fields, r) ==
    LET null(name) == Attr(r.instance, fields, name) = None
    IN  IF /\ r.error_msgs = <<>>
           /\ (null("phone") /\ null("email"))
           /\ (null("first_name") /\ null("last_name"))
           /\ (null("gender") /\ null("birthday"))
        THEN [r EXCEPT !.error_msgs = Append(r.error_msgs, "not enough arguments")]
        ELSE r

\* OnlineScoreRequest.validate after super().validate() returned r.
OnlineScoreRequest_check(fields, r) ==
    LET null(name) == Attr(r.instance, fields, name) = None
    IN  IF /\ r.error_msgs = <<>>
           /\ (null("phone") \/ null("email"))
           /\ (null("first_name") \/ null("last_name"))
           /\ (null("gender") \/ null("birthday"))
        THEN [r EXCEPT !.error_msgs = Append(r.error_msgs, "not enough arguments")]
        ELSE r

OnlineScoreRequest_validate(self, fields, td) ==
    OnlineScoreRequest_check(fields, FieldHolderBase_validate(self, fields, td))

\* self.validate(), bound by the instance's class.
validate(self, fields, td) ==
    CASE self.cls = "ClientsInterestsRequest" -> ClientsInterestsRequest_validate(self, fields, td)
      [] self.cls = "OnlineScoreRequest" -> OnlineScoreRequest_validate(self, fields, td)
      [] OTHER -> FieldHolderBase_validate(self, fields, td)

----------------------------------------------------------------------------
(* The wall clock *)

StartTime == [y |-> 2021, m |-> 6, d |-> 15, h |-> 23]
MaxTicks == 2

\* One hour later.
NextHour(t) ==
    IF t.h < 23 THEN [t EXCEPT !.h = t.h + 1]
    ELSE IF t.d < DaysInMonth(t.y, t.m) THEN [t EXCEPT !.h = 0, !.d = t.d + 1]
    ELSE IF t.m < 12 THEN [t EXCEPT !.h = 0, !.d = 1, !.m = t.m + 1]
    ELSE [y |-> t.y + 1, m |-> 1, d |-> 1, h |-> 0]

RECURSIVE HoursLater(_, _)
HoursLater(t, k) == IF k = 0 THEN t ELSE NextHour(HoursLater(t, k - 1))

\* datetime.date.today()
Today == [y |-> now.y, m |-> now.m, d |-> now.d]

Tick ==
    /\ \E k \in 0..(MaxTicks - 1) : now = HoursLater(StartTime, k)
    /\ now' = NextHour(now)
    /\ UNCHANGED <<field_dict, objs, req>>

----------------------------------------------------------------------------
(* The dispatcher: api.py *)

SALT == <<"O", "t", "u", "s">>
ADMIN_LOGIN == <<"a", "d", "m", "i", "n">>
ADMIN_SALT == <<"4", "2">>
OK == 200
FORBIDDEN == 403
NOT_FOUND == 404
INVALID_REQUEST == 422

\* METHOD_ROUTER, as the tuple of its items.
METHOD_ROUTER ==
    << <<<<"o", "n", "l", "i", "n", "e", "_", "s", "c", "o", "r", "e">>,
         [object |-> "OnlineScoreRequest", action |-> "get_score"]>>,
       <<<<"c", "l", "i", "e", "n", "t", "s", "_", "i", "n", "t", "e", "r", "e", "s", "t", "s">>,
         [object |-> "ClientsInterestsRequest", action |-> "get_interests"]>> >>

\* hashlib.sha512(s.encode('utf-8')).hexdigest(): an injective function of s
\* (digest collisions are not modelled), never equal to a string of the inputs.
Sha512Hex(s) == <<"sha512:">> \o s

Digits2(n) == <<DigitChars[(n \div 10) + 1], DigitChars[(n % 10) + 1]>>
\* t.strftime("%Y%m%d%H")
strftime(t) == Digits2(t.y \div 100) \o Digits2(t.y % 100) \o Digits2(t.m)
                   \o Digits2(t.d) \o Digits2(t.h)

\* MethodRequest.is_admin
is_admin(request, fields) == Attr(request, fields, "login") = StrV(ADMIN_LOGIN)

\* check_auth(request) at clock time t: raised when '{:s}'.format(None) raises
\* TypeError, otherwise result is the value returned.
check_auth(request, fields, t) ==
    LET account == Attr(request, fields, "account")
        login == Attr(request, fields, "login")
        token == Attr(request, fields, "token")
        hash_str == IF is_admin(request, fields) THEN strftime(t) \o ADMIN_SALT
                    ELSE account.v \o login.v \o SALT
    IN  IF ~is_admin(request, fields) /\ (account = None \/ login = None)
        THEN [raised |-> TRUE, result |-> FALSE]
        ELSE [raised |-> FALSE, result |-> (StrV(Sha512Hex(hash_str)) = token)]

RECURSIVE Join(_, _)
\* sep.join(msgs)
Join(sep, msgs) ==
    IF msgs = <<>> THEN ""
    ELSE IF Len(msgs) = 1 THEN msgs[1]
    ELSE msgs[1] \o sep \o Join(sep, Tail(msgs))

\* A str held as text (the joined error messages).
Text(s) == [t |-> "text", v |-> s]
\* What the scoring module returns: opaque to this program.
Opaque(what) == [t |-> "opaque", v |-> what]

\* OnlineScoreRequest.has: the fields that are not None, in field order.
has(request, fields) ==
    SelectSeq([i \in 1..Len(fields) |-> fields[i].field_name],
              LAMBDA n : request.dict[n] # None)

\* get_score(ctx, store, method_request, online_score_request); ext tells
\* whether the scoring module raises when called.
get_score(method_request, mfields, online_score_request, fields, ext) ==
    IF is_admin(method_request, mfields)
    THEN [raised |-> FALSE, ctx |-> [has |-> has(online_score_request, fields), nclients |-> -1],
          response |-> DictV(<<<<"score", IntV(<<"4", "2">>)>>>>)]
    ELSE IF ext.raises
    THEN [raised |-> TRUE, ctx |-> [has |-> <<>>, nclients |-> -1], response |-> None]
    ELSE [raised |-> FALSE, ctx |-> [has |-> has(online_score_request, fields), nclients |-> -1],
          response |-> DictV(<<<<"score", Opaque("scoring.get_score")>>>>)]

\* get_interests(ctx, store, method_request, clients_interests_request)
get_interests(clients_interests_request, fields, ext) ==
    LET client_ids == Attr(clients_interests_request, fields, "client_ids").v
    IN  IF client_ids # <<>> /\ ext.raises
        THEN [raised |-> TRUE, ctx |-> [has |-> <<>>, nclients |-> -1], response |-> None]
        ELSE [raised |-> FALSE,
              ctx |-> [has |-> <<>>,
                       nclients |-> IF client_ids = <<>> THEN -1 ELSE Len(client_ids)],
              response |-> DictV([i \in 1..Len(client_ids) |->
                                     <<client_ids[i], Opaque("scoring.get_interests")>>])]

\* method['action'](ctx, store, method_request, object_request)
action(method, method_request, mfields, object_request, fields, ext) ==
    IF method.action = "get_score"
    THEN get_score(method_request, mfields, object_request, fields, ext)
    ELSE get_interests(object_request, fields, ext)

\* What one call of method_handler did: the steps it took, whether an exception
\* left it (raised), and otherwise the (response, code) it returned.
Outcome(steps, raised, response, code, ctx) ==
    [steps |-> steps, raised |-> raised, response |-> response, code |-> code, ctx |-> ctx]

NoCtx == [has |-> <<>>, nclients |-> -1]
Escaped(steps) == Outcome(steps, TRUE, None, 0, NoCtx)

\* Line 151-155, h being what the handler did.
method_handler_acted(steps, h) ==
    IF h.raised THEN Escaped(steps)
    ELSE Outcome(steps, FALSE, h.response, OK, h.ctx)

\* Lines 149-155 with a slip: code = OK is set whether or not the payload is valid.
method_handler_payload_always_ok(steps, method, method_request, mfields, fields, ext, r) ==
    IF r.error_msgs # <<>>
    THEN Outcome(steps, FALSE, Text(Join("; ", r.error_msgs)), OK, NoCtx)
    ELSE method_handler_acted(Append(steps, "action"),
             action(method, method_request, mfields, r.instance, fields, ext))

\* Lines 149-155, r being what object_request.validate() did.
method_handler_payload(steps, method, method_request, mfields, fields, ext, r) ==
    IF r.error_msgs # <<>>
    THEN Outcome(steps, FALSE, Text(Join("; ", r.error_msgs)), INVALID_REQUEST, NoCtx)
    ELSE method_handler_acted(Append(steps, "action"),
             action(method, method_request, mfields, r.instance, fields, ext))

\* Lines 147-155: the method is registered.
method_handler_routed(steps, method, method_request, fd, ext, td) ==
    LET arguments == Attr(method_request, fd["MethodRequest"], "arguments")
    IN  IF ~IsDict(arguments)
        THEN Escaped(Append(steps, "object"))     \* "name in None" raises TypeError
        ELSE method_handler_payload(
                 steps \o <<"object", "object.validate">>, method, method_request,
                 fd["MethodRequest"], fd[method.object], ext,
                 validate(FieldHolderBase_init(method.object, fd[method.object], arguments.v),
                          fd[method.object], td))

\* Lines 144-155 with a slip: the method is looked up before the result of
\* check_auth is acted on.
method_handler_authed_lookup_first(steps, method_request, fd, ext, td, auth) ==
    LET name == Attr(method_request, fd["MethodRequest"], "method").v
    IN  IF auth.raised THEN Escaped(steps)
        ELSE IF ~HasKey(METHOD_ROUTER, name)
        THEN Outcome(Append(steps, "lookup"), FALSE, None, INVALID_REQUEST, NoCtx)
        ELSE IF ~auth.result
        THEN Outcome(Append(steps, "lookup"), FALSE, None, FORBIDDEN, NoCtx)
        ELSE method_handler_routed(Append(steps, "lookup"), Lookup(METHOD_ROUTER, name),
                                   method_request, fd, ext, td)

\* Lines 144-155 with a slip: an unregistered method is reported as not found.
method_handler_authed_not_found(steps, method_request, fd, ext, td, auth) ==
    LET name == Attr(method_request, fd["MethodRequest"], "method").v
    IN  IF auth.raised THEN Escaped(steps)
        ELSE IF ~auth.result THEN Outcome(steps, FALSE, None, FORBIDDEN, NoCtx)
        ELSE IF HasKey(METHOD_ROUTER, name)
        THEN method_handler_routed(Append(steps, "lookup"), Lookup(METHOD_ROUTER, name),
                                   method_request, fd, ext, td)
        ELSE Outcome(Append(steps, "lookup"), FALSE, None, NOT_FOUND, NoCtx)

\* Lines 144-155, auth being what check_auth did.
method_handler_authed(steps, method_request, fd, ext, td, auth) ==
    LET name == Attr(method_request, fd["MethodRequest"], "method").v
    IN  IF auth.raised THEN Escaped(steps)
        ELSE IF ~auth.result THEN Outcome(steps, FALSE, None, FORBIDDEN, NoCtx)
        ELSE IF HasKey(METHOD_ROUTER, name)
        THEN method_handler_routed(Append(steps, "lookup"), Lookup(METHOD_ROUTER, name),
                                   method_request, fd, ext, td)
        ELSE Outcome(Append(steps, "lookup"), FALSE, None, INVALID_REQUEST, NoCtx)

\* Lines 143-155, r being what method_request.validate() did.
method_handler_envelope(steps, fd, ext, t, r) ==
    IF r.error_msgs # <<>>
    THEN Outcome(steps, FALSE, Text(Join("; ", r.error_msgs)), INVALID_REQUEST, NoCtx)
    ELSE method_handler_authed(Append(steps, "check_auth"), r.instance, fd, ext,
                               [y |-> t.y, m |-> t.m, d |-> t.d],
                               check_auth(r.instance, fd["MethodRequest"], t))

\* method_handler(request, ctx, store) at clock time t; body is request['body']
\* (the items of a dict), fd the classes' field_dict.
method_handler(body, fd, ext, t) ==
    method_handler_envelope(
        <<"validate">>, fd, ext, t,
        validate(FieldHolderBase_init("MethodRequest", fd["MethodRequest"], body),
                 fd["MethodRequest"], [y |-> t.y, m |-> t.m, d |-> t.d]))

----------------------------------------------------------------------------
(* Inputs: the raw values a request may carry for each field *)

Absent == [t |-> "absent", v |-> <<>>]   \* the key is not in the mapping

GoodPhone == <<"7", "9", "9", "9", "1", "2", "3", "4", "5", "6", "7">>
BadPhone == <<"8", "9", "9", "9", "1", "2", "3", "4", "5", "6", "7">>
GoodEmail == <<"i", "v", "a", "n", "@", "o", "t", "u", "s", ".", "r", "u">>
ShortEmail == <<"a", "@", "b", ".", "c", "d">>
GoodDate == <<"2", "0", ".", "0", "7", ".", "2", "0", "1", "7">>
BadDate == <<"3", "1", ".", "0", "2", ".", "2", "0", "1", "7">>
\* 70 years old until the clock passes midnight, 71 afterwards.
EdgeBirthday == <<"1", "6", ".", "0", "6", ".", "1", "9", "5", "0">>

\* The dicts a request may carry as arguments; each schema reads its own keys.
Payloads ==
    {<<>>,
     <<<<"phone", IntV(GoodPhone)>>, <<"email", StrV(GoodEmail)>>,
       <<"client_ids", ListV(<<IntV(<<"1">>), IntV(<<"2">>), IntV(<<"3">>)>>)>>>>,
     <<<<"first_name", StrV(<<"A">>)>>, <<"client_ids", ListV(<<>>)>>>>,
     <<<<"phone", StrV(BadPhone)>>, <<"email", StrV(ShortEmail)>>,
       <<"client_ids", ListV(<<IntV(<<"-", "1">>)>>)>>, <<"date", StrV(BadDate)>>>>,
     <<<<"gender", IntV(<<"1">>)>>, <<"birthday", StrV(EdgeBirthday)>>,
       <<"client_ids", StrV(<<"1">>)>>>>}

RawValues(field_name) ==
    CASE field_name = "first_name" -> {Absent, None, StrV(<<"A">>), IntV(<<"1">>)}
      [] field_name = "last_name" -> {Absent, None, StrV(<<"B">>)}
      [] field_name = "email" -> {Absent, None, StrV(GoodEmail), StrV(ShortEmail)}
      [] field_name = "phone" ->
            {Absent, None, StrV(GoodPhone), IntV(GoodPhone), StrV(BadPhone)}
      [] field_name = "birthday" ->
            {Absent, None, StrV(GoodDate), StrV(EdgeBirthday), StrV(BadDate)}
      [] field_name = "gender" -> {Absent, None, IntV(<<"1">>), IntV(<<"3">>)}
      [] field_name = "client_ids" ->
            {Absent, None, ListV(<<>>),
             ListV(<<IntV(<<"1">>), IntV(<<"2">>), IntV(<<"3">>)>>),
             ListV(<<IntV(<<"-", "1">>)>>),
             ListV(<<IntV(<<"1">>), StrV(<<"a">>)>>),
             StrV(<<"1">>)}
      [] field_name = "date" -> {Absent, None, StrV(GoodDate), StrV(BadDate), IntV(<<"1">>)}
      [] field_name = "account" -> {Absent, None, StrV(<<"a", "c", "c">>), IntV(<<"1">>)}
      [] field_name = "login" ->
            {Absent, None, StrV(<<"a", "d", "m", "i", "n">>), StrV(<<"u">>), IntV(<<"1">>)}
      [] field_name = "token" ->
            {Absent, None, StrV(<<"t">>), IntV(<<"1">>),
             StrV(Sha512Hex(<<"a", "c", "c">> \o <<"u">> \o SALT)),
             StrV(Sha512Hex(strftime(StartTime) \o ADMIN_SALT))}
      [] field_name = "arguments" ->
            {Absent, None, StrV(<<"x">>)} \cup {DictV(m) : m \in Payloads}
      [] field_name = "method" ->
            {Absent, None, StrV(<<"m">>), IntV(<<"1">>),
             StrV(METHOD_ROUTER[1][1]), StrV(METHOD_ROUTER[2][1])}

AttrNames(cls) == [i \in 1..Len(ClassBody(cls)) |-> ClassBody(cls)[i][1]]

\* Every raw mapping (a tuple of dict items, in field order) that gives each of
\* the names one of its raw values or leaves it out.
RECURSIVE StructsOver(_)
StructsOver(names) ==
    IF names = <<>> THEN {<<>>}
    ELSE {IF x = Absent THEN rest ELSE <<<<Head(names), x>>>> \o rest :
              x \in RawValues(Head(names)), rest \in StructsOver(Tail(names))}

Structs(cls) == StructsOver(AttrNames(cls))

----------------------------------------------------------------------------
(* The validation engine as a state machine *)

\* What one call of validate() on a record returned and left behind. A record of
\* objs carries the mapping it was built from (struct), the instance (inst), its
\* last two results (res, prev) and the date of its first validate() (first).
NoResult == [done |-> FALSE, error_msgs |-> <<>>, calls |-> <<>>,
             today |-> [y |-> 0, m |-> 0, d |-> 0], record |-> EmptyDict]

\* The converted values committed on the instance: its field_name entries.
Record(instance, fields) ==
    [k \in (DOMAIN instance.dict) \cap FieldNames(fields) |-> instance.dict[k]]

Result(r, fields, td) ==
    [done |-> TRUE, error_msgs |-> r.error_msgs, calls |-> r.calls,
     today |-> td, record |-> Record(r.instance, fields)]

\* obj = cls(struct)
New(cls, struct) ==
    /\ objs' = Append(objs, [struct |-> struct,
                             inst |-> FieldHolderBase_init(cls, field_dict[cls], struct),
                             res |-> NoResult, prev |-> NoResult, first |-> NoResult.today])
    /\ UNCHANGED <<now, field_dict, req>>

\* objs[i].validate(), r being what the call did.
Validated(i, fields, r) ==
    /\ objs' = [objs EXCEPT ![i] = [struct |-> @.struct, inst |-> r.instance,
                                    res |-> Result(r, fields, Today), prev |-> @.res,
                                    first |-> IF @.res.done THEN @.first ELSE Today]]
    /\ UNCHANGED <<now, field_dict, req>>

Validate(i) ==
    Validated(i, field_dict[objs[i].inst.cls],
              validate(objs[i].inst, field_dict[objs[i].inst.cls], Today))

NoRequest == [called |-> FALSE]

\* method_handler({'body': body, ...}, ctx, store), the scoring module behaving
\* as ext says.
Call(body, ext) ==
    /\ req' = [called |-> TRUE, body |-> body, ext |-> ext, at |-> now,
               out |-> method_handler(body, field_dict, ext, now)]
    /\ UNCHANGED <<now, field_dict, objs>>

Init ==
    /\ now = StartTime
    /\ field_dict = [cls \in Classes |-> FieldHolderMeta_new(ClassBody(cls))]
    /\ objs = <<>>
    /\ req = NoRequest

\* One record at a time, over every raw mapping.
NewOne ==
    /\ objs = <<>>
    /\ \E cls \in DOMAIN field_dict : \E struct \in Structs(cls) : New(cls, struct)
ValidateAny == \E i \in 1..Len(objs) : Validate(i)

Next == NewOne \/ ValidateAny \/ Tick

Spec == Init /\ [][Next]_vars

\* Several records alive at once, over a few raw mappings.
MaxObjects == 2

PoolStructs(cls) ==
    CASE cls = "OnlineScoreRequest" ->
            {<<<<"phone", IntV(GoodPhone)>>, <<"email", StrV(GoodEmail)>>,
               <<"birthday", StrV(EdgeBirthday)>>>>,
             <<<<"first_name", StrV(<<"A">>)>>, <<"birthday", StrV(BadDate)>>,
               <<"gender", IntV(<<"3">>)>>>>}
      [] cls = "ClientsInterestsRequest" ->
            {<<<<"client_ids", ListV(<<IntV(<<"1">>), IntV(<<"2">>)>>)>>,
               <<"date", StrV(GoodDate)>>>>,
             <<<<"date", IntV(<<"1">>)>>>>}
      [] OTHER ->
            {<<<<"login", StrV(<<"u">>)>>, <<"token", None>>, <<"arguments", DictV(<<>>)>>>>}

NewPooled ==
    /\ Len(objs) < MaxObjects
    /\ \E cls \in DOMAIN field_dict : \E struct \in PoolStructs(cls) : New(cls, struct)

NextPool == NewPooled \/ ValidateAny \/ Tick

SpecPool == Init /\ [][NextPool]_vars

\* One request, at any time, with the scoring module raising or not.
CallOne ==
    /\ req = NoRequest
    /\ \E body \in Structs("MethodRequest"), raises \in BOOLEAN :
           Call(body, [raises |-> raises])

NextDispatch == CallOne \/ Tick

SpecDispatch == Init /\ [][NextDispatch]_vars

----------------------------------------------------------------------------
(* Properties of the validation engine *)

Range(q) == {q[i] : i \in 1..Len(q)}
RECURSIVE Flatten(_)
Flatten(lists) == IF lists = <<>> THEN <<>> ELSE Head(lists) \o Flatten(Tail(lists))

ValidatedObjs == {i \in 1..Len(objs) : objs[i].res.done}
ValidatedOf(cls) == {i \in ValidatedObjs : objs[i].inst.cls = cls}
FieldsOf(o) == field_dict[o.inst.cls]
\* The lists the calls of Field.validate returned, in call order.
CallErrors(o) == [k \in 1..Len(o.res.calls) |-> o.res.calls[k].error_msgs]
\* The raw mapping gives the name a value that is not null.
Given(struct, name) == HasKey(struct, name) /\ Lookup(struct, name) # None
\* What Field.validate returns for f on a record just built from struct.
AloneErrors(o, f) ==
    Field_validate(f, FieldHolderBase_init(o.inst.cls, FieldsOf(o), o.struct),
                   o.res.today).error_msgs

\* C4: for a field absent from the raw mapping the result of Field.validate
\* depends on required alone: exactly ["<field>: required field absent"] when
\* required, success with value null and no error otherwise; and "field must not
\* be null" is reported only for a field present with value null and not nullable.
C4_AbsentDependsOnRequiredAlone ==
    \A i \in ValidatedObjs :
        LET o == objs[i]
        IN  \A k \in 1..Len(FieldsOf(o)) :
                LET f == FieldsOf(o)[k]
                    errs == o.res.calls[k].error_msgs
                IN  /\ ~HasKey(o.struct, f.field_name) =>
                          IF f.required
                          THEN errs = <<format_err(f, "required field absent")>>
                          ELSE /\ errs = <<>>
                               /\ f.field_name \in DOMAIN o.res.record
                               /\ o.res.record[f.field_name] = None
                    /\ format_err(f, "field must not be null") \in Range(errs) =>
                          /\ HasKey(o.struct, f.field_name)
                          /\ Lookup(o.struct, f.field_name) = None
                          /\ ~f.nullable

\* C5: validate() yields a record or an error list, never both: after a
\* validate() that returned errors no converted value is stored on the instance,
\* and after one that returned none every field's value is stored.
C5_RecordOrErrorsNeverBoth ==
    \A i \in ValidatedObjs :
        LET o == objs[i]
        IN  IF o.res.error_msgs # <<>>
            THEN DOMAIN o.res.record = {}
            ELSE DOMAIN o.res.record = FieldNames(FieldsOf(o))

\* C6: validate() calls every descriptor of the schema exactly once, in
\* declaration order, and returns the concatenation of the fields' own error
\* lists, a field's list being what it is when validated alone (so it does not
\* depend on an earlier field having failed). Schema-level messages follow only
\* when no field failed.
C6_NoShortCircuit ==
    \A i \in ValidatedObjs :
        LET o == objs[i]
            fields == FieldsOf(o)
        IN  /\ [k \in 1..Len(o.res.calls) |-> o.res.calls[k].field_name]
                   = [k \in 1..Len(fields) |-> fields[k].field_name]
            /\ \A k \in 1..Len(fields) : o.res.calls[k].error_msgs = AloneErrors(o, fields[k])
            /\ LET all == Flatten([k \in 1..Len(fields) |-> AloneErrors(o, fields[k])])
               IN  all # <<>> => o.res.error_msgs = all

\* A record two of whose fields fail: both errors are reported.
C6_Witness ==
    \E i \in ValidatedObjs :
        /\ Cardinality({k \in 1..Len(objs[i].res.calls) :
                            objs[i].res.calls[k].error_msgs # <<>>}) >= 2
        /\ objs[i].res.error_msgs = Flatten(CallErrors(objs[i]))
        /\ Len(objs[i].res.error_msgs) >= 2

PairGiven(struct) ==
    \/ Given(struct, "phone") /\ Given(struct, "email")
    \/ Given(struct, "first_name") /\ Given(struct, "last_name")
    \/ Given(struct, "gender") /\ Given(struct, "birthday")

\* C7: OnlineScoreRequest.validate returns exactly the field errors when a field
\* fails (without "not enough arguments"); when all six fields pass it returns
\* ["not enough arguments"] exactly when no pair (phone, email), (first_name,
\* last_name), (gender, birthday) has both members non-null, and [] otherwise.
C7_CrossFieldRule ==
    \A i \in ValidatedOf("OnlineScoreRequest") :
        LET o == objs[i]
            fe == Flatten(CallErrors(o))
        IN  /\ Len(o.res.calls) = 6
            /\ o.res.error_msgs =
                  IF fe # <<>> THEN fe
                  ELSE IF PairGiven(o.struct) THEN <<>>
                  ELSE <<"not enough arguments">>

\* Only first_name given: every field passes and the cross-field rule fails.
C7_Witness ==
    \E i \in ValidatedOf("OnlineScoreRequest") :
        /\ objs[i].struct = <<<<"first_name", StrV(<<"A">>)>>>>
        /\ objs[i].res.error_msgs = <<"not enough arguments">>

IsNonNegativeInt(x) == x.t = "int" /\ x.v # <<>> /\ x.v[1] # "-"
ValidDateOrNone(struct) ==
    \/ ~Given(struct, "date")
    \/ IsStr(Lookup(struct, "date")) /\ strptime(Lookup(struct, "date").v).ok

\* C8: ClientsInterestsRequest.validate succeeds if and only if client_ids is a
\* non-empty list of integers >= 0 and date is absent, null or a valid date.
C8_ClientIdsNonNegative ==
    \A i \in ValidatedOf("ClientsInterestsRequest") :
        LET o == objs[i]
            ids == Lookup(o.struct, "client_ids")
        IN  (o.res.error_msgs = <<>>) <=>
                /\ HasKey(o.struct, "client_ids")
                /\ IsList(ids)
                /\ ids.v # <<>>
                /\ \A k \in 1..Len(ids.v) : IsNonNegativeInt(ids.v[k])
                /\ ValidDateOrNone(o.struct)

\* The descriptors are as the class definitions made them.
SchemaUntouched == field_dict = [cls \in Classes |-> FieldHolderMeta_new(ClassBody(cls))]
SameOutcome(a, b) == a.error_msgs = b.error_msgs /\ a.record = b.record

\* C10 as stated: two validations of the same raw mapping against the same
\* schema (the same record twice, or two records) yield the same error list and
\* the same converted record, and the schema is never changed.
C10_IdempotentAlways ==
    /\ SchemaUntouched
    /\ \A i \in ValidatedObjs : objs[i].prev.done => SameOutcome(objs[i].res, objs[i].prev)
    /\ \A i \in ValidatedObjs, j \in ValidatedObjs :
           objs[i].inst.cls = objs[j].inst.cls /\ objs[i].struct = objs[j].struct
               => SameOutcome(objs[i].res, objs[j].res)

\* C10, amended: the same holds provided every validation of the records
\* concerned read the same current date (BirthDayField compares the birthday
\* with date.today(), and a record keeps the value an earlier validate() stored
\* for a field that fails later).
C10_IdempotentOnSameDate ==
    /\ SchemaUntouched
    /\ \A i \in ValidatedObjs :
           objs[i].prev.done /\ objs[i].first = objs[i].res.today
               => SameOutcome(objs[i].res, objs[i].prev)
    /\ \A i \in ValidatedObjs, j \in ValidatedObjs :
           /\ objs[i].inst.cls = objs[j].inst.cls
           /\ objs[i].struct = objs[j].struct
           /\ objs[i].first = objs[i].res.today
           /\ objs[j].first = objs[j].res.today
           /\ objs[i].res.today = objs[j].res.today
           => SameOutcome(objs[i].res, objs[j].res)

\* A record validated twice on one day, and another record of the same mapping
\* validated on that day too; the phone number was given as an int and converted.
C10_Witness ==
    \E i \in ValidatedObjs, j \in ValidatedObjs :
        /\ i # j
        /\ objs[i].prev.done
        /\ objs[i].first = objs[i].res.today
        /\ objs[j].first = objs[j].res.today
        /\ objs[j].struct = objs[i].struct /\ objs[j].inst.cls = objs[i].inst.cls
        /\ objs[j].res.today = objs[i].res.today
        /\ Given(objs[i].struct, "phone")
        /\ objs[i].res.record["phone"] = StrV(GoodPhone)

----------------------------------------------------------------------------
(* Properties of the dispatcher *)

MFields == field_dict["MethodRequest"]
ReqDay == [y |-> req.at.y, m |-> req.at.m, d |-> req.at.d]
\* What validating the envelope of the last request gives.
Envelope == validate(FieldHolderBase_init("MethodRequest", MFields, req.body), MFields, ReqDay)
EnvelopeValid == Envelope.error_msgs = <<>>
Auth == check_auth(Envelope.instance, MFields, req.at)
Authenticated == ~Auth.raised /\ Auth.result
AuthFailed == ~Auth.raised /\ ~Auth.result
MethodName == Attr(Envelope.instance, MFields, "method").v
Registered == HasKey(METHOD_ROUTER, MethodName)
Arguments == Attr(Envelope.instance, MFields, "arguments")
PayloadClass == Lookup(METHOD_ROUTER, MethodName).object
Payload ==
    validate(FieldHolderBase_init(PayloadClass, field_dict[PayloadClass], Arguments.v),
             field_dict[PayloadClass], ReqDay)
PayloadValid == IsDict(Arguments) /\ Payload.error_msgs = <<>>
Took(step) == step \in Range(req.out.steps)

\* C1: the handler is invoked only if envelope validation returned no errors,
\* check_auth returned true, the method is registered and payload validation
\* returned no errors; and the code is 200 exactly when the handler was invoked
\* and returned.
C1_HandlerOnlyAfterAllChecks ==
    req.called =>
        /\ Took("action") =>
               EnvelopeValid /\ Authenticated /\ Registered /\ PayloadValid
        /\ (req.out.code = OK) <=> (Took("action") /\ ~req.out.raised)

\* The handler ran and returned.
C1_Witness ==
    /\ req.called
    /\ Took("action") /\ ~req.out.raised /\ req.out.code = OK
    /\ EnvelopeValid /\ Authenticated /\ Registered /\ PayloadValid

\* C2: when the envelope validates and check_auth returns false, nothing more
\* is done (no lookup, no payload object, no payload validation, no handler) and
\* the outcome is (None, 403), whatever the method and the arguments are.
C2_AuthFailureShortCircuits ==
    (req.called /\ EnvelopeValid /\ AuthFailed) =>
        req.out = Outcome(<<"validate", "check_auth">>, FALSE, None, FORBIDDEN, NoCtx)

\* A request for a registered method with valid arguments and a wrong token.
C2_Witness ==
    /\ req.called /\ EnvelopeValid /\ AuthFailed
    /\ Registered /\ PayloadValid
    /\ req.out.code = FORBIDDEN /\ req.out.response = None

\* C3: provided the scoring module does not raise, method_handler returns
\* normally with a code in {200, 403, 422} for every request body.
C3_NoExceptionEscapes ==
    (req.called /\ ~req.ext.raises) =>
        ~req.out.raised /\ req.out.code \in {OK, FORBIDDEN, INVALID_REQUEST}

\* C9: an envelope-valid, authenticated request for a method that is not
\* registered gets code 422 (never 200, 403 or 404) with no body; no payload
\* object is built or validated and no handler is invoked.
C9_UnknownMethodIsUnprocessable ==
    (req.called /\ EnvelopeValid /\ Authenticated /\ ~Registered) =>
        req.out = Outcome(<<"validate", "check_auth", "lookup">>, FALSE, None,
                          INVALID_REQUEST, NoCtx)

\* An authenticated request for the method "m", with arguments that a registered
\* method would accept.
C9_Witness ==
    /\ req.called /\ EnvelopeValid /\ Authenticated /\ ~Registered
    /\ IsDict(Arguments) /\ HasKey(Arguments.v, "phone")
    /\ req.out.code = INVALID_REQUEST

=============================================================================
